---------------------------- MODULE Spec2Model ----------------------------
(***************************************************************************)
(* AED decision pipeline of src/main.cpp: the loader loop, the quality     *)
(* gate, the four estimators (func_baseline, func_avg_amp, func_bpm,       *)
(* func_uniformity) and the shock decision.                                *)
(*                                                                         *)
(* Numbers.  A double is modelled by an exact rational <<n, d>> in lowest  *)
(* terms with d > 0 (Rat normalises); <<n, 0>> stands for the result of a   *)
(* division by zero.  Floating-point rounding is not modelled.  sqrt of a  *)
(* rational is kept symbolically as the record [radicand |-> v], compared  *)
(* with a constant through its square.                                     *)
(*                                                                         *)
(* Vectors are sequences; the code's 0-based index i is At(v, i).          *)
(***************************************************************************)
EXTENDS Integers, Sequences, FiniteSets, TLC

\* Largest number of complete records the input file holds.
MaxLen == 4

---------------------------------------------------------------------------
\* Exact rational arithmetic standing for double arithmetic.

RECURSIVE GCD(_, _)
GCD(a, b) == IF b = 0 THEN a ELSE GCD(b, a % b)

AbsInt(n) == IF n < 0 THEN -n ELSE n

Rat(n, d) ==
    IF d = 0 THEN <<n, 0>>
    ELSE LET s == IF d < 0 THEN -1 ELSE 1
             g == GCD(AbsInt(n), AbsInt(d))
         IN  <<(s * n) \div g, (s * d) \div g>>

Zero == <<0, 1>>

RatAdd(a, b) == Rat(a[1] * b[2] + b[1] * a[2], a[2] * b[2])
RatSub(a, b) == Rat(a[1] * b[2] - b[1] * a[2], a[2] * b[2])
RatMul(a, b) == Rat(a[1] * b[1], a[2] * b[2])
RatDiv(a, b) == Rat(a[1] * b[2], a[2] * b[1])
RatAbs(a)    == <<AbsInt(a[1]), a[2]>>
RatLt(a, b)  == a[1] * b[2] < b[1] * a[2]
RatLe(a, b)  == a[1] * b[2] <= b[1] * a[2]
RatGt(a, b)  == RatLt(b, a)
RatGe(a, b)  == RatLe(b, a)
FromInt(n)   == <<n, 1>>

\* sqrt(v), v >= 0, kept by its radicand; sqrt is strictly increasing, so
\* sqrt(v) < c  <=>  v < c*c  for c >= 0.
Sqrt(v)       == [radicand |-> v]
SqrtLt(s, c)  == RatLt(s.radicand, RatMul(c, c))
SqrtGe(s, c)  == RatGe(s.radicand, RatMul(c, c))

\* 0-based element access, as operator[] of std::vector.
At(v, i) == v[i + 1]

---------------------------------------------------------------------------
\* Step 5: func_baseline.  The parameter is a copy; std::sort orders it
\* ascending (insertion into an ordered prefix gives the same result).

RECURSIVE Insert(_, _)
Insert(s, v) ==
    IF s = <<>> THEN <<v>>
    ELSE IF RatLe(v, Head(s)) THEN <<v>> \o s
    ELSE <<Head(s)>> \o Insert(Tail(s), v)

RECURSIVE sort(_)
sort(s) == IF s = <<>> THEN <<>> ELSE Insert(sort(Tail(s)), Head(s))

\* Variant: the even case returns the upper middle element alone.
func_baseline_UpperMiddle(dp) ==
    LET sorted == sort(dp)
        n      == Len(sorted) \div 2
    IN  At(sorted, n)

\* Defined for a non-empty vector; on an empty one the code reads
\* datapoint[-1] and datapoint[0] (see BaselineIdx).
func_baseline(dp) ==
    LET sorted == sort(dp)
        n      == Len(sorted) \div 2
    IN  IF Len(sorted) % 2 = 1
        THEN At(sorted, n)
        ELSE RatDiv(RatAdd(At(sorted, n - 1), At(sorted, n)), FromInt(2))

\* Indices func_baseline reads of its sorted copy.
BaselineIdx(dp) ==
    LET n == Len(dp) \div 2
    IN  IF Len(dp) % 2 = 1 THEN {n} ELSE {n - 1, n}

---------------------------------------------------------------------------
\* Step 6: func_avg_amp.  The loop runs over rpeak; st = <<total, rpeak1>>.

RECURSIVE AvgAmpLoop(_, _, _, _, _)
AvgAmpLoop(dp, rp, b, i, st) ==
    IF i >= Len(rp) THEN st
    ELSE IF At(rp, i) = 1
         THEN AvgAmpLoop(dp, rp, b, i + 1,
                  <<RatAdd(st[1], RatAbs(RatSub(At(dp, i), b))), st[2] + 1>>)
         ELSE AvgAmpLoop(dp, rp, b, i + 1, st)

\* Variant: the division is made without the rpeak1 != 0 test.
func_avg_amp_Unguarded(dp, rp, b) ==
    LET st == AvgAmpLoop(dp, rp, b, 0, <<Zero, 0>>)
    IN  RatDiv(st[1], FromInt(st[2]))

func_avg_amp(dp, rp, b) ==
    LET st     == AvgAmpLoop(dp, rp, b, 0, <<Zero, 0>>)
        total  == st[1]
        rpeak1 == st[2]
    IN  IF rpeak1 # 0 THEN RatDiv(total, FromInt(rpeak1)) ELSE Zero

\* Indices of datapoint func_avg_amp reads (of timestamp for func_bpm).
PeakIdx(rp) == {i \in 0 .. Len(rp) - 1 : At(rp, i) = 1}

---------------------------------------------------------------------------
\* Step 7: func_bpm.  st = <<timebetween, prev, cnt>>; prev starts at -1.0.

NoPrev == <<-1, 1>>

RECURSIVE BpmLoop(_, _, _, _)
BpmLoop(ts, rp, i, st) ==
    IF i >= Len(rp) THEN st
    ELSE IF At(rp, i) = 1
         THEN BpmLoop(ts, rp, i + 1,
                  IF st[2] # NoPrev
                  THEN <<RatAdd(st[1], RatSub(At(ts, i), st[2])), At(ts, i),
                         st[3] + 1>>
                  ELSE <<st[1], At(ts, i), st[3]>>)
         ELSE BpmLoop(ts, rp, i + 1, st)

func_bpm(ts, rp) ==
    LET st          == BpmLoop(ts, rp, 0, <<Zero, NoPrev, 0>>)
        timebetween == st[1]
        cnt         == st[3]
    IN  IF cnt < 2 THEN Zero
        ELSE LET avg == RatDiv(timebetween, FromInt(cnt))
             IN  RatDiv(FromInt(60), avg)

---------------------------------------------------------------------------
\* Step 8: func_uniformity.

\* Variant: a value equal to the baseline counts as above it.
Deflection_EqualIsAbove(y1, y2, b) ==
    \/ RatGe(y1, b) /\ RatLt(y2, b)
    \/ RatLt(y1, b) /\ RatGe(y2, b)

\* The deflection test of the inner loop.
Deflection(y1, y2, b) ==
    \/ RatGt(y1, b) /\ RatLe(y2, b)
    \/ RatLe(y1, b) /\ RatGt(y2, b)

\* Inner loop: for (j = prev_peak; j < i; j++).
RECURSIVE InnerLoop(_, _, _, _, _)
InnerLoop(dp, b, j, i, cnt) ==
    IF j >= i THEN cnt
    ELSE InnerLoop(dp, b, j + 1, i,
             IF Deflection(At(dp, j), At(dp, j + 1), b) THEN cnt + 1 ELSE cnt)

\* Outer loop; st = [count, prev_peak, rpeak1].
RECURSIVE UniformityLoop(_, _, _, _, _)
UniformityLoop(dp, rp, b, i, st) ==
    IF i >= Len(rp) THEN st
    ELSE IF At(rp, i) = 1
         THEN UniformityLoop(dp, rp, b, i + 1,
                  [count     |-> IF st.prev_peak # -1
                                 THEN Append(st.count,
                                          InnerLoop(dp, b, st.prev_peak, i, 0))
                                 ELSE st.count,
                   prev_peak |-> i,
                   rpeak1    |-> st.rpeak1 + 1])
         ELSE UniformityLoop(dp, rp, b, i + 1, st)

\* The vector count func_uniformity has built when its loops end.
DeflectionCounts(dp, rp, b) ==
    UniformityLoop(dp, rp, b, 0,
                   [count |-> <<>>, prev_peak |-> -1, rpeak1 |-> 0]).count

RECURSIVE SumInts(_)
SumInts(s) == IF s = <<>> THEN 0 ELSE Head(s) + SumInts(Tail(s))

\* var += (x-mean)*(x-mean) over count.
RECURSIVE SumSqDev(_, _)
SumSqDev(s, mean) ==
    IF s = <<>> THEN Zero
    ELSE LET dev == RatSub(FromInt(Head(s)), mean)
         IN  RatAdd(RatMul(dev, dev), SumSqDev(Tail(s), mean))

\* mean, var and sd of lines 157-168.
StdDev(count) ==
    LET sum  == SumInts(count)
        mean == RatDiv(FromInt(sum), FromInt(Len(count)))
        var  == RatDiv(SumSqDev(count, mean), FromInt(Len(count)))
    IN  Sqrt(var)

func_uniformity(dp, rp, b) ==
    LET st == UniformityLoop(dp, rp, b, 0,
                  [count |-> <<>>, prev_peak |-> -1, rpeak1 |-> 0])
    IN  IF st.rpeak1 < 2 THEN Sqrt(Zero) ELSE StdDev(st.count)

\* Indices of datapoint func_uniformity reads: j and j+1 for every j from
\* the first peak up to, not including, the last.
UniformityIdx(rp) ==
    UNION {{j, j + 1} : j \in {k \in 0 .. Len(rp) - 1 :
              /\ \E p \in PeakIdx(rp) : p <= k
              /\ \E q \in PeakIdx(rp) : k < q}}

---------------------------------------------------------------------------
\* Steps 8 and 9 of main: the organized verdict and the shock decision.

\* Variant: uniformity <= 1.0 is reported organized.
Organized_Inclusive(u) ==
    IF RatLe(u.radicand, FromInt(1)) THEN "YES" ELSE "NO"

Organized(u) == IF SqrtLt(u, FromInt(1)) THEN "YES" ELSE "NO"

\* Variant: the rate test is bpm < 150.0.
ShockDecision_StrictRate(amp, base, u, rate) ==
    IF \/ RatLt(amp, <<1, 10>>)
       \/ RatGt(base, FromInt(1))
       \/ SqrtGe(u, FromInt(1)) /\ RatLt(rate, FromInt(200))
       \/ RatLt(rate, FromInt(150))
    THEN "NO, DO NOT SHOCK"
    ELSE "YES, SHOCK!"

\* Variant: the rate test bpm <= 150.0 is missing.
ShockDecision_NoRateFloor(amp, base, u, rate) ==
    IF \/ RatLt(amp, <<1, 10>>)
       \/ RatGt(base, FromInt(1))
       \/ SqrtGe(u, FromInt(1)) /\ RatLt(rate, FromInt(200))
    THEN "NO, DO NOT SHOCK"
    ELSE "YES, SHOCK!"

ShockDecision(amp, base, u, rate) ==
    IF \/ RatLt(amp, <<1, 10>>)
       \/ RatGt(base, FromInt(1))
       \/ SqrtGe(u, FromInt(1)) /\ RatLt(rate, FromInt(200))
       \/ RatLe(rate, FromInt(150))
    THEN "NO, DO NOT SHOCK"
    ELSE "YES, SHOCK!"

\* clean_ecg is declared in cleaner.h; its criterion is not part of the
\* analysed source, so either verdict is possible for any amplitudes.
clean_ecg(dp) == BOOLEAN

---------------------------------------------------------------------------
\* Contents the input file ecg.dat may have.  A numeral is a decimal the
\* stream parses; flags are the integers 0 and 1.  Timestamps of successive
\* records increase by one of Deltas (0.2 s, 0.3 s) from the first timestamp
\* 0.0, so no timestamp equals -1.0, the value func_bpm uses as its "no
\* previous peak" mark.  Amplitudes are 0.0, 0.5 and 3.0.

StartTimes == {<<0, 1>>}
Deltas     == {<<1, 5>>, <<3, 10>>}
Amps       == {<<0, 1>>, <<1, 2>>, <<3, 1>>}
Flags      == {0, 1}

\* What an out-of-bounds read in func_baseline may yield when it does not
\* fault.
Garbage    == {<<0, 1>>, <<3, 1>>}

VARIABLES
    pc,          \* position of main
    consumed,    \* fields of ecg.dat extracted so far, in file order
    timestamp,   \* vector<double> timestamp
    datapoint,   \* vector<double> datapoint
    rpeak,       \* vector<int> rpeak
    is_clean,    \* bool is_clean
    baseline,    \* double baseline
    avg_amp,     \* double avg_amp
    bpm,         \* double bpm
    uniformity,  \* double uniformity
    out,         \* lines written to cout (numeric operands left out)
    calls        \* functions main has called, in call order

vars == <<pc, consumed, timestamp, datapoint, rpeak, is_clean, baseline,
          avg_amp, bpm, uniformity, out, calls>>

estimates == <<baseline, avg_amp, bpm, uniformity>>
vectors   == <<consumed, timestamp, datapoint, rpeak>>

Init ==
    /\ pc = "start"
    /\ consumed = <<>>
    /\ timestamp = <<>>
    /\ datapoint = <<>>
    /\ rpeak = <<>>
    /\ is_clean = FALSE
    /\ baseline = Zero
    /\ avg_amp = Zero
    /\ bpm = Zero
    /\ uniformity = Sqrt(Zero)
    /\ out = <<>>
    /\ calls = <<>>

---------------------------------------------------------------------------
\* main, steps 1 and 2: banner, open the file, loader loop.

OpenOk ==
    /\ pc = "start"
    /\ out' = out \o <<"** Starting AED Software **", "">>
    /\ pc' = "load"
    /\ UNCHANGED <<vectors, is_clean, estimates, calls>>

OpenFail ==
    /\ pc = "start"
    /\ out' = out \o <<"** Starting AED Software **", "",
                       "ERROR: input file not found">>
    /\ pc' = "done"
    /\ UNCHANGED <<vectors, is_clean, estimates, calls>>

\* Timestamps the next record of the file may carry.
NextTimes ==
    IF timestamp = <<>> THEN StartTimes
    ELSE {RatAdd(timestamp[Len(timestamp)], d) : d \in Deltas}

\* One loop iteration in which all three extractions succeed.
ReadRecord ==
    /\ pc = "load"
    /\ Len(rpeak) < MaxLen
    /\ \E x \in NextTimes, y \in Amps, z \in Flags :
          /\ timestamp' = Append(timestamp, x)
          /\ datapoint' = Append(datapoint, y)
          /\ rpeak' = Append(rpeak, z)
          /\ consumed' = consumed \o <<x, y, FromInt(z)>>
    /\ UNCHANGED <<pc, is_clean, estimates, out, calls>>

\* The iteration in which file >> x >> y fails (end of file, or a field
\* that is not a number): nothing is pushed, the loop ends.
ReadFailXY ==
    /\ pc = "load"
    /\ pc' = "gate"
    /\ UNCHANGED <<vectors, is_clean, estimates, out, calls>>

\* The iteration in which x and y are extracted and pushed, and file >> z
\* then fails: the loop ends.
ReadFailZ ==
    /\ pc = "load"
    /\ Len(rpeak) < MaxLen
    /\ \E x \in NextTimes, y \in Amps :
          /\ timestamp' = Append(timestamp, x)
          /\ datapoint' = Append(datapoint, y)
          /\ consumed' = consumed \o <<x, y>>
    /\ pc' = "gate"
    /\ UNCHANGED <<rpeak, is_clean, estimates, out, calls>>

---------------------------------------------------------------------------
\* Step 3: the quality gate.

GateClean ==
    /\ pc = "gate"
    /\ TRUE \in clean_ecg(datapoint)
    /\ is_clean' = TRUE
    /\ calls' = Append(calls, "clean_ecg")
    /\ out' = Append(out, "Is signal clean? YES")
    /\ pc' = "visualize"
    /\ UNCHANGED <<vectors, estimates>>

\* Variant: the not-clean branch lacks its return and falls through.
GateUnclean_FallsThrough ==
    /\ pc = "gate"
    /\ FALSE \in clean_ecg(datapoint)
    /\ is_clean' = FALSE
    /\ calls' = Append(calls, "clean_ecg")
    /\ out' = out \o <<"Is signal clean? NO, DO NOT SHOCK", "", "** Done **">>
    /\ pc' = "visualize"
    /\ UNCHANGED <<vectors, estimates>>

GateUnclean ==
    /\ pc = "gate"
    /\ FALSE \in clean_ecg(datapoint)
    /\ is_clean' = FALSE
    /\ calls' = Append(calls, "clean_ecg")
    /\ out' = out \o <<"Is signal clean? NO, DO NOT SHOCK", "", "** Done **">>
    /\ pc' = "done"
    /\ UNCHANGED <<vectors, estimates>>

\* Step 4: visualize_ecg writes an image; nothing it does is read back.
Visualize ==
    /\ pc = "visualize"
    /\ calls' = Append(calls, "visualize_ecg")
    /\ pc' = "baseline"
    /\ UNCHANGED <<vectors, is_clean, estimates, out>>

\* Step 5 on a non-empty amplitude vector.
Step5 ==
    /\ pc = "baseline"
    /\ datapoint # <<>>
    /\ baseline' = func_baseline(datapoint)
    /\ calls' = Append(calls, "func_baseline")
    /\ out' = Append(out, "Baseline?")
    /\ pc' = "avg_amp"
    /\ UNCHANGED <<vectors, is_clean, avg_amp, bpm, uniformity>>

\* Step 5 on an empty vector: the reads are out of bounds (undefined
\* behaviour).  Either they yield some value ...
Step5Garbage ==
    /\ pc = "baseline"
    /\ datapoint = <<>>
    /\ \E g \in Garbage : baseline' = g
    /\ calls' = Append(calls, "func_baseline")
    /\ out' = Append(out, "Baseline?")
    /\ pc' = "avg_amp"
    /\ UNCHANGED <<vectors, is_clean, avg_amp, bpm, uniformity>>

\* ... or the process faults inside func_baseline.
Step5Crash ==
    /\ pc = "baseline"
    /\ datapoint = <<>>
    /\ calls' = Append(calls, "func_baseline")
    /\ pc' = "crashed"
    /\ UNCHANGED <<vectors, is_clean, estimates, out>>

Step6 ==
    /\ pc = "avg_amp"
    /\ avg_amp' = func_avg_amp(datapoint, rpeak, baseline)
    /\ calls' = Append(calls, "func_avg_amp")
    /\ out' = Append(out, "Average amplitude?")
    /\ pc' = "bpm"
    /\ UNCHANGED <<vectors, is_clean, baseline, bpm, uniformity>>

Step7 ==
    /\ pc = "bpm"
    /\ bpm' = func_bpm(timestamp, rpeak)
    /\ calls' = Append(calls, "func_bpm")
    /\ out' = Append(out, "BPM?")
    /\ pc' = "uniformity"
    /\ UNCHANGED <<vectors, is_clean, baseline, avg_amp, uniformity>>

Step8 ==
    /\ pc = "uniformity"
    /\ uniformity' = func_uniformity(datapoint, rpeak, baseline)
    /\ calls' = Append(calls, "func_uniformity")
    /\ out' = Append(out, "Organized? " \o Organized(uniformity'))
    /\ pc' = "decide"
    /\ UNCHANGED <<vectors, is_clean, baseline, avg_amp, bpm>>

Step9 ==
    /\ pc = "decide"
    /\ out' = out \o <<"Shock patient? "
                          \o ShockDecision(avg_amp, baseline, uniformity, bpm),
                       "", "** Done **">>
    /\ pc' = "done"
    /\ UNCHANGED <<vectors, is_clean, estimates, calls>>

Next ==
    \/ OpenOk
    \/ OpenFail
    \/ ReadRecord
    \/ ReadFailXY
    \/ ReadFailZ
    \/ GateClean
    \/ GateUnclean
    \/ Visualize
    \/ Step5
    \/ Step5Garbage
    \/ Step5Crash
    \/ Step6
    \/ Step7
    \/ Step8
    \/ Step9

Spec == Init /\ [][Next]_vars

---------------------------------------------------------------------------
\* Vocabulary of the properties.

NumPeaks == Cardinality(PeakIdx(rpeak))

\* The loader loop has ended.
Loaded == pc \notin {"start", "load"}

Has(seq, e) == \E i \in 1 .. Len(seq) : seq[i] = e

ShockYes == "Shock patient? YES, SHOCK!"
ShockNo  == "Shock patient? NO, DO NOT SHOCK"

\* The k-th peak-flagged index, k = 1 .. NumPeaks, in index order.
KthPeak(k) ==
    CHOOSE p \in PeakIdx(rpeak) :
        Cardinality({q \in PeakIdx(rpeak) : q < p}) = k - 1

RECURSIVE RatSum(_)
RatSum(s) == IF s = <<>> THEN Zero ELSE RatAdd(Head(s), RatSum(Tail(s)))

\* The report event a line of output stands for ("" for banner lines).
Kind(l) ==
    CASE l \in {"Is signal clean? YES", "Is signal clean? NO, DO NOT SHOCK"}
             -> "clean"
      [] l = "Baseline?" -> "baseline"
      [] l = "Average amplitude?" -> "amplitude"
      [] l = "BPM?" -> "bpm"
      [] l \in {"Organized? YES", "Organized? NO"} -> "organized"
      [] l \in {ShockYes, ShockNo} -> "shock"
      [] OTHER -> ""

\* The lines main prints on a clean trace, given the verdict line.
Transcript(shock) ==
    <<"** Starting AED Software **", "",
      "Is signal clean? YES",
      "Baseline?",
      "Average amplitude?",
      "BPM?",
      IF RatLt(uniformity.radicand, <<1, 1>>)
          THEN "Organized? YES" ELSE "Organized? NO",
      shock,
      "", "** Done **">>

---------------------------------------------------------------------------
\* C1: when main has finished on a clean trace, the verdict line is
\* "NO, DO NOT SHOCK" exactly when avg_amp < 0.1, or baseline > 1.0, or
\* (uniformity >= 1.0 and bpm < 200.0), or bpm <= 150.0, and it is
\* "YES, SHOCK!" in every other case; exactly one verdict line is printed.
C1_VerdictRule ==
    (pc = "done" /\ is_clean) =>
        LET weak      == RatLt(avg_amp, <<1, 10>>)
            drift     == RatGt(baseline, <<1, 1>>)
            irregular == /\ RatGe(uniformity.radicand, <<1, 1>>)
                         /\ RatLt(bpm, <<200, 1>>)
            slow      == RatLe(bpm, <<150, 1>>)
            no        == weak \/ drift \/ irregular \/ slow
        IN  /\ no <=> Has(out, ShockNo)
            /\ ~no <=> Has(out, ShockYes)
            /\ Has(out, ShockNo) # Has(out, ShockYes)

\* A finished clean run that recommends a shock although the rhythm is
\* disorganized (bpm is at least 200).
C1_Witness ==
    /\ pc = "done"
    /\ is_clean
    /\ Has(out, ShockYes)
    /\ RatGe(uniformity.radicand, <<1, 1>>)

\* C2: once clean_ecg has returned false, main is finished, has called
\* nothing but clean_ecg, and has printed the not-clean verdict with
\* "NO, DO NOT SHOCK" and no "YES, SHOCK!".
C2_UncleanHalts ==
    (Has(calls, "clean_ecg") /\ ~is_clean) =>
        /\ pc = "done"
        /\ calls = <<"clean_ecg">>
        /\ out = <<"** Starting AED Software **", "",
                   "Is signal clean? NO, DO NOT SHOCK", "", "** Done **">>
        /\ ~Has(out, ShockYes)

\* The gate has rejected a trace of three complete records.
C2_Witness ==
    /\ Has(calls, "clean_ecg")
    /\ ~is_clean
    /\ Len(rpeak) >= 3
    /\ NumPeaks >= 3

\* C3: for a trace with at least 2 peak-flagged samples, func_bpm returns
\* 60 divided by the arithmetic mean of the differences between timestamps
\* of consecutive peak-flagged indices.  (Stated as claimed; the code does
\* not satisfy it.)
C3_BpmIsSixtyOverMeanInterval ==
    (is_clean /\ pc \in {"uniformity", "decide", "done"} /\ NumPeaks >= 2) =>
        LET n         == NumPeaks - 1
            intervals == [k \in 1 .. n |->
                             RatSub(At(timestamp, KthPeak(k + 1)),
                                    At(timestamp, KthPeak(k)))]
            mean      == RatDiv(RatSum(intervals), FromInt(n))
        IN  bpm = RatDiv(FromInt(60), mean)

\* C4: after the loader loop the three vectors have the same length.
\* (Stated as claimed; the code does not satisfy it.)
C4_EqualLengths ==
    Loaded =>
        /\ Len(timestamp) = Len(datapoint)
        /\ Len(datapoint) = Len(rpeak)

\* C5: on a trace with fewer than 2 peak-flagged samples "YES, SHOCK!" is
\* never printed, and a clean run that finishes prints "NO, DO NOT SHOCK".
C5_SentinelNeverShocks ==
    (Loaded /\ NumPeaks < 2) =>
        /\ ~Has(out, ShockYes)
        /\ (pc = "done" /\ is_clean) => Has(out, ShockNo)

\* A finished clean run with one peak whose amplitude and baseline would
\* pass the first two tests: only the rate sentinel withholds the shock.
C5_Witness ==
    /\ pc = "done"
    /\ is_clean
    /\ NumPeaks = 1
    /\ RatGe(avg_amp, <<1, 10>>)
    /\ RatLe(baseline, <<1, 1>>)

\* C6: with no peak-flagged index func_avg_amp returns exactly 0; with
\* fewer than 2 peak-flagged samples func_bpm and func_uniformity return
\* exactly 0; none of the results comes from a division by zero (a result
\* <<n, 0>>).
C6_DegenerateSentinels ==
    LET IsZero(r) == r[1] = 0 /\ r[2] # 0
    IN  /\ (is_clean /\ pc \in {"bpm", "uniformity", "decide", "done"}
               /\ NumPeaks = 0) => IsZero(avg_amp)
        /\ (is_clean /\ pc \in {"uniformity", "decide", "done"}
               /\ NumPeaks < 2) => IsZero(bpm)
        /\ (is_clean /\ pc \in {"decide", "done"}
               /\ NumPeaks < 2) => IsZero(uniformity.radicand)

\* All three estimators have returned on a trace without peaks whose
\* amplitudes are not all at the baseline.
C6_Witness ==
    /\ is_clean
    /\ pc = "decide"
    /\ NumPeaks = 0
    /\ \E i \in 1 .. Len(datapoint) : datapoint[i] # baseline

---------------------------------------------------------------------------
\* The statistical median, by rank: the element of rank k is the value v
\* with fewer than k elements below it and at least k elements not above.
RankElem(dp, k) ==
    CHOOSE v \in {dp[i] : i \in 1 .. Len(dp)} :
        /\ Cardinality({i \in 1 .. Len(dp) : RatLt(dp[i], v)}) < k
        /\ Cardinality({i \in 1 .. Len(dp) : RatLe(dp[i], v)}) >= k

Median(dp) ==
    LET N == Len(dp)
    IN  IF N % 2 = 1 THEN RankElem(dp, (N + 1) \div 2)
        ELSE RatDiv(RatAdd(RankElem(dp, N \div 2),
                           RankElem(dp, N \div 2 + 1)), FromInt(2))

\* Amplitude fields of the file, in file order.
FileAmps == [i \in 1 .. Len(datapoint) |-> consumed[3 * (i - 1) + 2]]

\* The states in which main is about to call func_baseline on a trace of
\* 1 .. MaxLen complete records: every amplitude sequence over Amps, with
\* timestamps 0.2 s apart and every sample flagged a peak.
RECURSIVE Traces(_)
Traces(n) ==
    IF n = 0 THEN {<<>>}
    ELSE {Append(t, y) : t \in Traces(n - 1), y \in Amps}

InitBaseline ==
    /\ pc = "baseline"
    /\ datapoint \in UNION {Traces(n) : n \in 1 .. MaxLen}
    /\ timestamp = [i \in 1 .. Len(datapoint) |-> Rat(i - 1, 5)]
    /\ rpeak = [i \in 1 .. Len(datapoint) |-> 1]
    /\ consumed = [k \in 1 .. 3 * Len(datapoint) |->
                      LET i == (k - 1) \div 3 + 1
                      IN  CASE k % 3 = 1 -> timestamp[i]
                            [] k % 3 = 2 -> datapoint[i]
                            [] OTHER     -> FromInt(rpeak[i])]
    /\ is_clean = TRUE
    /\ baseline = Zero
    /\ avg_amp = Zero
    /\ bpm = Zero
    /\ uniformity = Sqrt(Zero)
    /\ out = <<"** Starting AED Software **", "", "Is signal clean? YES">>
    /\ calls = <<"clean_ecg", "visualize_ecg">>

NextBaseline == Step5 \/ Step6

SpecBaseline == InitBaseline /\ [][NextBaseline]_vars

\* C7: when func_baseline has returned on a non-empty amplitude vector,
\* baseline is the median of the amplitudes; func_baseline gives the same
\* value on every permutation of them; for one amplitude it is that
\* amplitude; and datapoint still holds the amplitudes in file order, also
\* when the next estimator has run.
C7_BaselineIsMedian ==
    /\ Has(calls, "func_baseline") =>
           /\ baseline = Median(datapoint)
           /\ \A p \in Permutations(1 .. Len(datapoint)) :
                  func_baseline([i \in 1 .. Len(datapoint) |->
                                     datapoint[p[i]]]) = baseline
           /\ Len(datapoint) = 1 => baseline = datapoint[1]
    /\ datapoint = FileAmps

\* func_baseline has returned on four amplitudes that are not in ascending
\* order and whose two middle values differ.
C7_Witness ==
    /\ Has(calls, "func_avg_amp")
    /\ Len(datapoint) = 4
    /\ datapoint # sort(datapoint)
    /\ RankElem(datapoint, 2) # RankElem(datapoint, 3)

\* C8: on a clean trace the output is at every moment an initial part of
\* the lines: clean verdict, baseline, average amplitude, BPM, organized
\* verdict, shock verdict (each once, in this order, between the banner
\* lines), where the organized verdict is "YES" exactly when uniformity <
\* 1.0 and "NO" otherwise; a finished clean run has printed all of them;
\* and before a clean verdict no estimate line is printed.
C8_ReportOrder ==
    /\ is_clean =>
           /\ \E shock \in {ShockYes, ShockNo} :
                  /\ Len(out) <= Len(Transcript(shock))
                  /\ out = SubSeq(Transcript(shock), 1, Len(out))
           /\ pc = "done" => Len(out) = Len(Transcript(ShockNo))
    /\ ~is_clean =>
           \A i \in 1 .. Len(out) : Kind(out[i]) \in {"", "clean"}

\* A finished clean run whose uniformity is exactly 1.0.
C8_Witness ==
    /\ pc = "done"
    /\ is_clean
    /\ Has(out, "Organized? NO")
    /\ uniformity.radicand = <<1, 1>>

---------------------------------------------------------------------------
\* Deflections between the consecutive peaks KthPeak(k) and KthPeak(k+1).
WindowCount(k) ==
    Cardinality({j \in KthPeak(k) .. KthPeak(k + 1) - 1 :
        LET a == At(datapoint, j)
            b == At(datapoint, j + 1)
        IN  \/ RatGt(a, baseline) /\ ~RatGt(b, baseline)
            \/ ~RatGt(a, baseline) /\ RatGt(b, baseline)})

\* Population variance of a sequence of integers: (n*Sum(x^2) - Sum(x)^2)
\* / n^2.
PopVariance(xs) ==
    LET n  == Len(xs)
        S  == SumInts(xs)
        S2 == SumInts([i \in 1 .. n |-> xs[i] * xs[i]])
    IN  Rat(n * S2 - S * S, n * n)

\* C9: when func_uniformity has returned, its count vector holds one
\* entry per pair of consecutive peak-flagged indices, the k-th being the
\* number of deflections in the k-th window; with at least 2 peaks the
\* result is the population standard deviation of the counts, and it is 0
\* exactly when all counts are equal.
C9_UniformityIsPopulationSd ==
    (is_clean /\ pc \in {"decide", "done"}) =>
        LET count == DeflectionCounts(datapoint, rpeak, baseline)
            n     == IF NumPeaks = 0 THEN 0 ELSE NumPeaks - 1
        IN  /\ Len(count) = n
            /\ \A k \in 1 .. n : count[k] = WindowCount(k)
            /\ NumPeaks >= 2 =>
                  /\ uniformity.radicand = PopVariance(count)
                  /\ uniformity.radicand = Zero
                         <=> \A k \in 1 .. n : count[k] = count[1]

\* func_uniformity has returned a non-zero value on a trace with 3 or more
\* peaks in which a sample between the peaks is exactly at the baseline.
C9_Witness ==
    /\ is_clean
    /\ pc = "decide"
    /\ NumPeaks >= 3
    /\ uniformity.radicand # Zero
    /\ \E j \in KthPeak(1) .. KthPeak(NumPeaks) : At(datapoint, j) = baseline

\* C10: on a trace the gate has accepted, every index the estimators read
\* is within the vector read, and func_baseline is not run on an empty
\* vector.  (Stated as claimed; the code does not satisfy it.)
C10_AccessesInBounds ==
    /\ Has(calls, "func_baseline") =>
           /\ datapoint # <<>>
           /\ BaselineIdx(datapoint) \subseteq 0 .. Len(datapoint) - 1
    /\ Has(calls, "func_avg_amp") =>
           PeakIdx(rpeak) \subseteq 0 .. Len(datapoint) - 1
    /\ Has(calls, "func_bpm") =>
           PeakIdx(rpeak) \subseteq 0 .. Len(timestamp) - 1
    /\ Has(calls, "func_uniformity") =>
           UniformityIdx(rpeak) \subseteq 0 .. Len(datapoint) - 1

=============================================================================
